---- MODULE Spec2Model ----
(***************************************************************************)
(* The Juju cloud provider's Manager (cluster-autoscaler/cloudprovider/    *)
(* juju): the map of tracked units of one application, and the operations  *)
(* NewManager, addUnits, removeUnit and refresh that keep it in step with  *)
(* the status the Juju client reports.                                     *)
(*                                                                         *)
(* The Juju client is the environment: each call of Status, AddUnits or    *)
(* DestroyUnits either fails with an error or returns a value drawn from   *)
(* a bounded set.  A Go `range` over a map visits the keys in an           *)
(* unspecified order; every loop is a fold over an order the action picks. *)
(***************************************************************************)
EXTENDS Naturals, Sequences, FiniteSets, TLC

VARIABLES
    mgr,      \* "ready": NewManager returned a Manager; "nil": it returned nil
    units,    \* Manager.units: jujuName -> Unit
    op,       \* the operation that ran last
    args,     \* the arguments it was called with
    err,      \* the error it returned (NoError: nil)
    calls,    \* the client calls it issued, in order, each with what it returned
    prev,     \* Manager.units when it was called
    groups,   \* jujuCloudProvider.nodeGroups: each node group's target and Manager
    pending   \* the removeUnit that has marked its unit and not yet called DestroyUnits

vars == <<mgr, units, op, args, err, calls, prev, groups, pending>>

----------------------------------------------------------------------------
(* Bounds of the model. *)

\* number of distinct non-empty hostnames a machine may report
NumHosts == 2

\* largest delta addUnits is called with
MaxDelta == 2

\* the unit names the Juju status may list for the application
UnitIDs == {"unit_1", "unit_2"}

\* the errors a failing client call may return
ClientErrors == {"rpc error", "connection closed"}

\* the agent and workload status a unit may report: active and idle, or either
\* of the two not yet there
UnitHealths ==
    {[agent |-> "idle",      workload |-> "active"],
     [agent |-> "executing", workload |-> "active"],
     [agent |-> "idle",      workload |-> "waiting"]}

Hostnames == {""} \cup {"host_" \o ToString(i) : i \in 1..NumHosts}

\* a hostname no machine ever reports
NoSuchHost == "the_host_does_not_exist"

\* the machine a unit is deployed to
MachineOf(u) == "machine_of_" \o u

----------------------------------------------------------------------------
(* cloudprovider.InstanceState *)

InstanceRunning == "InstanceRunning"

InstanceCreating == "InstanceCreating"

InstanceDeleting == "InstanceDeleting"

NoError == "nil"

\* no removeUnit is under way
NoRemoval == [unit |-> "nil", hostname |-> "", phase |-> "none"]

\* what a client call returned: a value and a nil error, or nil and an error
Returned(value) == [ret |-> value, err |-> NoError]

Failed(e) == [ret |-> "nil", err |-> e]

\* the record of one client call
Call(fn, arg, result) == [fn |-> fn, arg |-> arg, ret |-> result.ret, err |-> result.err]

EmptyMap == [x \in {} |-> x]

Put(m, k, v) == [x \in DOMAIN m \cup {k} |-> IF x = k THEN v ELSE m[x]]

Delete(m, k) == [x \in DOMAIN m \ {k} |-> m[x]]

\* the orders in which a range over a map with key set S may visit it
Orders(S) ==
    {o \in [1..Cardinality(S) -> S] : \A x \in S : \E i \in DOMAIN o : o[i] = x}

----------------------------------------------------------------------------
(* params.FullStatus, as far as the Manager reads it: the units of the     *)
(* application (agent status, workload status, machine) and the hostname   *)
(* of each machine.                                                        *)

UnitStatuses(u) ==
    {[agent |-> h.agent, workload |-> h.workload, machine |-> MachineOf(u)] :
        h \in UnitHealths}

UnitMaps ==
    UNION {{f \in [D -> UNION {UnitStatuses(u) : u \in D}] :
                \A u \in D : f[u].machine = MachineOf(u)} : D \in SUBSET UnitIDs}

FullStatuses ==
    UNION {[units : {us}, machines : [{MachineOf(u) : u \in DOMAIN us} -> Hostnames]] :
                us \in UnitMaps}

\* fullStatus.Machines[machine].Hostname; a missing key reads as the zero value
MachineHostname(fullStatus, machine) ==
    IF machine \in DOMAIN fullStatus.machines
    THEN fullStatus.machines[machine]
    ELSE ""

\* unitStatus.WorkloadStatus.Status == "active" && unitStatus.AgentStatus.Status == "idle"
ActiveIdle(unitStatus) ==
    unitStatus.workload = "active" /\ unitStatus.agent = "idle"

----------------------------------------------------------------------------
(* NewManager *)

\* NewManagerUnit taking every unit of the status for a running one
NewManagerUnitAllRunning(fullStatus, unitName) ==
    LET unitStatus == fullStatus.units[unitName] IN
    [state    |-> InstanceRunning,
     jujuName |-> unitName,
     kubeName |-> MachineHostname(fullStatus, unitStatus.machine),
     status   |-> unitStatus]

\* NewManagerUnit leaving the kubeName for the first refresh to fill in
NewManagerUnitNoHostname(fullStatus, unitName) ==
    LET unitStatus == fullStatus.units[unitName] IN
    [state    |-> IF ActiveIdle(unitStatus) THEN InstanceRunning ELSE InstanceCreating,
     jujuName |-> unitName,
     kubeName |-> "",
     status   |-> unitStatus]

\* the Unit NewManager makes of a unit of the status
NewManagerUnit(fullStatus, unitName) ==
    LET unitStatus == fullStatus.units[unitName] IN
    [state    |-> IF ActiveIdle(unitStatus) THEN InstanceRunning ELSE InstanceCreating,
     jujuName |-> unitName,
     kubeName |-> MachineHostname(fullStatus, unitStatus.machine),
     status   |-> unitStatus]

RECURSIVE NewManagerLoop(_, _, _)
NewManagerLoop(m, fullStatus, order) ==
    IF order = <<>> THEN m
    ELSE NewManagerLoop(Put(m, Head(order), NewManagerUnit(fullStatus, Head(order))),
                        fullStatus, Tail(order))

\* NewManager returning a Manager without units when Status fails
NewManagerEmptyOnError(status, order) ==
    IF status.err # NoError
    THEN [mgr |-> "ready", units |-> EmptyMap, err |-> status.err,
          calls |-> <<Call("Status", "nil", status)>>]
    ELSE [mgr |-> "ready", units |-> NewManagerLoop(EmptyMap, status.ret, order),
          err |-> NoError, calls |-> <<Call("Status", "nil", status)>>]

\* what NewManager returns: the Manager (its units) or nil, and the error
NewManager(status, order) ==
    IF status.err # NoError
    THEN [mgr |-> "nil", units |-> EmptyMap, err |-> status.err,
          calls |-> <<Call("Status", "nil", status)>>]
    ELSE [mgr |-> "ready", units |-> NewManagerLoop(EmptyMap, status.ret, order),
          err |-> NoError, calls |-> <<Call("Status", "nil", status)>>]

Init ==
    /\ groups = <<>>
    /\ pending = NoRemoval
    /\ prev = EmptyMap
    /\ op = "NewManager"
    /\ args = [application |-> "test_application"]
    /\ \/ \E e \in ClientErrors :
          LET r == NewManager(Failed(e), <<>>) IN
            /\ mgr = r.mgr
            /\ units = r.units
            /\ err = r.err
            /\ calls = r.calls
       \/ \E fullStatus \in FullStatuses :
          \E order \in Orders(DOMAIN fullStatus.units) :
          LET r == NewManager(Returned(fullStatus), order) IN
            /\ mgr = r.mgr
            /\ units = r.units
            /\ err = r.err
            /\ calls = r.calls

----------------------------------------------------------------------------
(* refresh *)

\* RefreshStatusStep without the branch that takes in an unmanaged unit
RefreshStatusStepNoAdopt(m, fullStatus, unitName) ==
    LET unitStatus == fullStatus.units[unitName] IN
    IF unitName \in DOMAIN m
    THEN [m EXCEPT ![unitName] =
            [@ EXCEPT !.status = unitStatus,
                      !.kubeName = IF @ = ""
                                   THEN MachineHostname(fullStatus, unitStatus.machine)
                                   ELSE @]]
    ELSE m

\* RefreshStatusStep taking in an unmanaged unit on its workload status alone
RefreshStatusStepWorkloadOnly(m, fullStatus, unitName) ==
    LET unitStatus == fullStatus.units[unitName] IN
    IF unitName \in DOMAIN m
    THEN [m EXCEPT ![unitName] =
            [@ EXCEPT !.status = unitStatus,
                      !.kubeName = IF @ = ""
                                   THEN MachineHostname(fullStatus, unitStatus.machine)
                                   ELSE @]]
    ELSE IF unitStatus.workload = "active"
         THEN Put(m, unitName, [state    |-> InstanceRunning,
                                jujuName |-> unitName,
                                kubeName |-> "",
                                status   |-> unitStatus])
         ELSE m

\* RefreshStatusStep looking up the hostname of an InstanceCreating unit only
RefreshStatusStepCreatingOnly(m, fullStatus, unitName) ==
    LET unitStatus == fullStatus.units[unitName] IN
    IF unitName \in DOMAIN m
    THEN [m EXCEPT ![unitName] =
            [@ EXCEPT !.status = unitStatus,
                      !.kubeName = IF @ = "" /\ m[unitName].state = InstanceCreating
                                   THEN MachineHostname(fullStatus, unitStatus.machine)
                                   ELSE @]]
    ELSE IF ActiveIdle(unitStatus)
         THEN Put(m, unitName, [state    |-> InstanceRunning,
                                jujuName |-> unitName,
                                kubeName |-> "",
                                status   |-> unitStatus])
         ELSE m

\* RefreshStatusStep taking the hostname of the status every time
RefreshStatusStepFollowHostname(m, fullStatus, unitName) ==
    LET unitStatus == fullStatus.units[unitName] IN
    IF unitName \in DOMAIN m
    THEN [m EXCEPT ![unitName] =
            [@ EXCEPT !.status = unitStatus,
                      !.kubeName = MachineHostname(fullStatus, unitStatus.machine)]]
    ELSE IF ActiveIdle(unitStatus)
         THEN Put(m, unitName, [state    |-> InstanceRunning,
                                jujuName |-> unitName,
                                kubeName |-> "",
                                status   |-> unitStatus])
         ELSE m

\* RefreshStatusStep taking in an unmanaged unit only while no unit is managed
RefreshStatusStepFirstOnly(m, fullStatus, unitName) ==
    LET unitStatus == fullStatus.units[unitName] IN
    IF unitName \in DOMAIN m
    THEN [m EXCEPT ![unitName] =
            [@ EXCEPT !.status = unitStatus,
                      !.kubeName = IF @ = ""
                                   THEN MachineHostname(fullStatus, unitStatus.machine)
                                   ELSE @]]
    ELSE IF ActiveIdle(unitStatus) /\ DOMAIN m = {}
         THEN Put(m, unitName, [state    |-> InstanceRunning,
                                jujuName |-> unitName,
                                kubeName |-> "",
                                status   |-> unitStatus])
         ELSE m

\* the body of the loop over the units of the status
RefreshStatusStep(m, fullStatus, unitName) ==
    LET unitStatus == fullStatus.units[unitName] IN
    IF unitName \in DOMAIN m
    THEN [m EXCEPT ![unitName] =
            [@ EXCEPT !.status = unitStatus,
                      !.kubeName = IF @ = ""
                                   THEN MachineHostname(fullStatus, unitStatus.machine)
                                   ELSE @]]
    ELSE IF ActiveIdle(unitStatus)
         THEN Put(m, unitName, [state    |-> InstanceRunning,
                                jujuName |-> unitName,
                                kubeName |-> "",
                                status   |-> unitStatus])
         ELSE m

RECURSIVE RefreshStatusLoop(_, _, _)
RefreshStatusLoop(m, fullStatus, order) ==
    IF order = <<>> THEN m
    ELSE RefreshStatusLoop(RefreshStatusStep(m, fullStatus, Head(order)),
                           fullStatus, Tail(order))

\* RefreshStateStep removing an InstanceDeleting unit only once the status no
\* longer lists it
RefreshStateStepKeepListed(m, fullStatus, unitName) ==
    LET marked == IF unitName \notin DOMAIN fullStatus.units
                  THEN [m EXCEPT ![unitName].state = InstanceDeleting]
                  ELSE m
        unit == marked[unitName]
    IN  IF unit.state = InstanceCreating
        THEN IF ActiveIdle(unit.status)
             THEN [marked EXCEPT ![unitName].state = InstanceRunning]
             ELSE marked
        ELSE IF unit.state = InstanceDeleting /\ unitName \notin DOMAIN fullStatus.units
             THEN Delete(marked, unitName)
             ELSE marked

\* RefreshStateStep without the check for a unit missing from the status
RefreshStateStepNoAbsent(m, fullStatus, unitName) ==
    LET unit == m[unitName]
    IN  IF unit.state = InstanceCreating
        THEN IF ActiveIdle(unit.status)
             THEN [m EXCEPT ![unitName].state = InstanceRunning]
             ELSE m
        ELSE IF unit.state = InstanceDeleting
             THEN Delete(m, unitName)
             ELSE m

\* RefreshStateStep taking a creating unit for running on its workload status
\* alone
RefreshStateStepWorkloadOnly(m, fullStatus, unitName) ==
    LET marked == IF unitName \notin DOMAIN fullStatus.units
                  THEN [m EXCEPT ![unitName].state = InstanceDeleting]
                  ELSE m
        unit == marked[unitName]
    IN  IF unit.state = InstanceCreating
        THEN IF unit.status.workload = "active"
             THEN [marked EXCEPT ![unitName].state = InstanceRunning]
             ELSE marked
        ELSE IF unit.state = InstanceDeleting
             THEN Delete(marked, unitName)
             ELSE marked

\* RefreshStateStep marking a unit missing from the status and leaving its
\* removal to the next refresh
RefreshStateStepMarkOnly(m, fullStatus, unitName) ==
    LET unit == m[unitName]
    IN  IF unitName \notin DOMAIN fullStatus.units
        THEN [m EXCEPT ![unitName].state = InstanceDeleting]
        ELSE IF unit.state = InstanceCreating
        THEN IF ActiveIdle(unit.status)
             THEN [m EXCEPT ![unitName].state = InstanceRunning]
             ELSE m
        ELSE IF unit.state = InstanceDeleting
             THEN Delete(m, unitName)
             ELSE m

\* RefreshStateStep that leaves an InstanceCreating unit as it is
RefreshStateStepNoPromotion(m, fullStatus, unitName) ==
    LET marked == IF unitName \notin DOMAIN fullStatus.units
                  THEN [m EXCEPT ![unitName].state = InstanceDeleting]
                  ELSE m
        unit == marked[unitName]
    IN  IF unit.state = InstanceDeleting
        THEN Delete(marked, unitName)
        ELSE marked

\* RefreshStateStep that never deletes a unit
RefreshStateStepNeverPrune(m, fullStatus, unitName) ==
    LET marked == IF unitName \notin DOMAIN fullStatus.units
                  THEN [m EXCEPT ![unitName].state = InstanceDeleting]
                  ELSE m
        unit == marked[unitName]
    IN  IF unit.state = InstanceCreating /\ ActiveIdle(unit.status)
        THEN [marked EXCEPT ![unitName].state = InstanceRunning]
        ELSE marked

\* the body of the loop over the managed units
RefreshStateStep(m, fullStatus, unitName) ==
    LET marked == IF unitName \notin DOMAIN fullStatus.units
                  THEN [m EXCEPT ![unitName].state = InstanceDeleting]
                  ELSE m
        unit == marked[unitName]
    IN  IF unit.state = InstanceCreating
        THEN IF ActiveIdle(unit.status)
             THEN [marked EXCEPT ![unitName].state = InstanceRunning]
             ELSE marked
        ELSE IF unit.state = InstanceDeleting
             THEN Delete(marked, unitName)
             ELSE marked

RECURSIVE RefreshStateLoop(_, _, _)
RefreshStateLoop(m, fullStatus, order) ==
    IF order = <<>> THEN m
    ELSE RefreshStateLoop(RefreshStateStep(m, fullStatus, Head(order)),
                          fullStatus, Tail(order))

\* ManagerRefresh going on with an empty status when Status fails
ManagerRefreshNoReturn(m, status, order1, order2) ==
    IF status.err # NoError
    THEN [units |-> EmptyMap, err |-> status.err,
          calls |-> <<Call("Status", "nil", status)>>]
    ELSE [units |-> RefreshStateLoop(RefreshStatusLoop(m, status.ret, order1),
                                     status.ret, order2),
          err   |-> NoError,
          calls |-> <<Call("Status", "nil", status)>>]

\* ManagerRefresh calling Status a second time when the first call fails
ManagerRefreshRetry(m, status, order1, order2) ==
    IF status.err # NoError
    THEN [units |-> m, err |-> status.err,
          calls |-> <<Call("Status", "nil", status), Call("Status", "nil", status)>>]
    ELSE [units |-> RefreshStateLoop(RefreshStatusLoop(m, status.ret, order1),
                                     status.ret, order2),
          err   |-> NoError,
          calls |-> <<Call("Status", "nil", status)>>]

\* Manager.refresh, given what Status returns and the orders of its two loops
ManagerRefresh(m, status, order1, order2) ==
    IF status.err # NoError
    THEN [units |-> m, err |-> status.err,
          calls |-> <<Call("Status", "nil", status)>>]
    ELSE [units |-> RefreshStateLoop(RefreshStatusLoop(m, status.ret, order1),
                                     status.ret, order2),
          err   |-> NoError,
          calls |-> <<Call("Status", "nil", status)>>]

\* what a refresh of the Manager m may come to when Status returns status,
\* over the orders of its two loops
RefreshOutcomes(m, status) ==
    IF status.err # NoError
    THEN {ManagerRefresh(m, status, <<>>, <<>>)}
    ELSE UNION {{ManagerRefresh(m, status, order1, order2) :
                    order2 \in Orders(DOMAIN RefreshStatusLoop(m, status.ret, order1))} :
                order1 \in Orders(DOMAIN status.ret.units)}

\* the statuses the client may return to a refresh: any, or, right after a
\* successful refresh, the same status again (the fleet did not change)
RefreshStatuses ==
    IF op = "idle" THEN FullStatuses
    ELSE IF op = "refresh" /\ err = NoError THEN {calls[1].ret}
    ELSE {}

refresh ==
    /\ mgr = "ready"
    /\ op' = "refresh"
    /\ args' = [none |-> TRUE]
    /\ prev' = units
    /\ \/ \E e \in ClientErrors :
          LET r == ManagerRefresh(units, Failed(e), <<>>, <<>>) IN
            /\ op = "idle"
            /\ units' = r.units
            /\ err' = r.err
            /\ calls' = r.calls
       \/ \E fullStatus \in RefreshStatuses :
          \E r \in RefreshOutcomes(units, Returned(fullStatus)) :
            /\ units' = r.units
            /\ err' = r.err
            /\ calls' = r.calls
    /\ UNCHANGED <<mgr, groups, pending>>

----------------------------------------------------------------------------
(* addUnits *)

\* the statuses the client returns around AddUnits; addUnits reads the unit
\* names of the first and the units of the second, and no hostname
PrevStatuses ==
    {fs \in FullStatuses :
        /\ \A u \in DOMAIN fs.units : ActiveIdle(fs.units[u])
        /\ \A mach \in DOMAIN fs.machines : fs.machines[mach] = "host_1"}

CurrentStatuses ==
    {fs \in FullStatuses : \A mach \in DOMAIN fs.machines : fs.machines[mach] = "host_1"}

\* what AddUnits may return: no name, or a name
AddUnitsResults == {<<>>, <<"unit_1">>}

\* a call the operation returned before making
NotCalled == [ret |-> "nil", err |-> "not called"]

\* AddUnitsStep comparing with the managed units, not with the previous status
AddUnitsStepUnmanaged(m, prevStatus, currentStatus, unitName) ==
    IF unitName \notin DOMAIN m
    THEN Put(m, unitName, [state    |-> InstanceCreating,
                           jujuName |-> unitName,
                           kubeName |-> "",
                           status   |-> currentStatus.units[unitName]])
    ELSE m

\* AddUnitsStep leaving the jujuName of the new Unit unset
AddUnitsStepNoName(m, prevStatus, currentStatus, unitName) ==
    IF unitName \notin DOMAIN prevStatus.units
    THEN Put(m, unitName, [state    |-> InstanceCreating,
                           jujuName |-> "",
                           kubeName |-> "",
                           status   |-> currentStatus.units[unitName]])
    ELSE m

\* the body of the loop over the units of the current status
AddUnitsStep(m, prevStatus, currentStatus, unitName) ==
    IF unitName \notin DOMAIN prevStatus.units
    THEN Put(m, unitName, [state    |-> InstanceCreating,
                           jujuName |-> unitName,
                           kubeName |-> "",
                           status   |-> currentStatus.units[unitName]])
    ELSE m

RECURSIVE AddUnitsLoop(_, _, _, _)
AddUnitsLoop(m, prevStatus, currentStatus, order) ==
    IF order = <<>> THEN m
    ELSE AddUnitsLoop(AddUnitsStep(m, prevStatus, currentStatus, Head(order)),
                      prevStatus, currentStatus, Tail(order))

\* the units AddUnits named, recorded as created
RECURSIVE RecordAdded(_, _)
RecordAdded(m, names) ==
    IF names = <<>> THEN m
    ELSE RecordAdded(Put(m, Head(names), [state    |-> InstanceCreating,
                                          jujuName |-> Head(names),
                                          kubeName |-> "",
                                          status   |-> [agent    |-> "",
                                                        workload |-> "",
                                                        machine  |-> ""]]),
                     Tail(names))

\* ManagerAddUnits recording the names AddUnits returned when the second
\* Status fails
ManagerAddUnitsTrusting(m, delta, prevStatus, added, currentStatus, order) ==
    LET c1 == Call("Status", "nil", prevStatus)
        c2 == Call("AddUnits", [NumUnits |-> delta], added)
        c3 == Call("Status", "nil", currentStatus)
    IN  IF prevStatus.err # NoError
        THEN [units |-> m, err |-> prevStatus.err, calls |-> <<c1>>]
        ELSE IF added.err # NoError
        THEN [units |-> m, err |-> added.err, calls |-> <<c1, c2>>]
        ELSE IF currentStatus.err # NoError
        THEN [units |-> RecordAdded(m, added.ret), err |-> currentStatus.err,
              calls |-> <<c1, c2, c3>>]
        ELSE [units |-> AddUnitsLoop(m, prevStatus.ret, currentStatus.ret, order),
              err   |-> NoError,
              calls |-> <<c1, c2, c3>>]

\* ManagerAddUnits calling AddUnits whether or not the first Status failed
ManagerAddUnitsEager(m, delta, prevStatus, added, currentStatus, order) ==
    LET c1 == Call("Status", "nil", prevStatus)
        c2 == Call("AddUnits", [NumUnits |-> delta], added)
        c3 == Call("Status", "nil", currentStatus)
    IN  IF prevStatus.err # NoError
        THEN [units |-> m, err |-> prevStatus.err, calls |-> <<c1, c2>>]
        ELSE IF added.err # NoError
        THEN [units |-> m, err |-> added.err, calls |-> <<c1, c2>>]
        ELSE IF currentStatus.err # NoError
        THEN [units |-> m, err |-> currentStatus.err, calls |-> <<c1, c2, c3>>]
        ELSE [units |-> AddUnitsLoop(m, prevStatus.ret, currentStatus.ret, order),
              err   |-> NoError,
              calls |-> <<c1, c2, c3>>]

\* ManagerAddUnits dropping the units the second status no longer lists
ManagerAddUnitsResync(m, delta, prevStatus, added, currentStatus, order) ==
    LET c1 == Call("Status", "nil", prevStatus)
        c2 == Call("AddUnits", [NumUnits |-> delta], added)
        c3 == Call("Status", "nil", currentStatus)
        kept == [u \in DOMAIN m \cap DOMAIN currentStatus.ret.units |-> m[u]]
    IN  IF prevStatus.err # NoError
        THEN [units |-> m, err |-> prevStatus.err, calls |-> <<c1>>]
        ELSE IF added.err # NoError
        THEN [units |-> m, err |-> added.err, calls |-> <<c1, c2>>]
        ELSE IF currentStatus.err # NoError
        THEN [units |-> m, err |-> currentStatus.err, calls |-> <<c1, c2, c3>>]
        ELSE [units |-> AddUnitsLoop(kept, prevStatus.ret, currentStatus.ret, order),
              err   |-> NoError,
              calls |-> <<c1, c2, c3>>]

\* ManagerAddUnits recording the names AddUnits returned besides the units the
\* two statuses differ in
ManagerAddUnitsAcknowledged(m, delta, prevStatus, added, currentStatus, order) ==
    LET c1 == Call("Status", "nil", prevStatus)
        c2 == Call("AddUnits", [NumUnits |-> delta], added)
        c3 == Call("Status", "nil", currentStatus)
    IN  IF prevStatus.err # NoError
        THEN [units |-> m, err |-> prevStatus.err, calls |-> <<c1>>]
        ELSE IF added.err # NoError
        THEN [units |-> m, err |-> added.err, calls |-> <<c1, c2>>]
        ELSE IF currentStatus.err # NoError
        THEN [units |-> m, err |-> currentStatus.err, calls |-> <<c1, c2, c3>>]
        ELSE [units |-> AddUnitsLoop(RecordAdded(m, added.ret), prevStatus.ret,
                                     currentStatus.ret, order),
              err   |-> NoError,
              calls |-> <<c1, c2, c3>>]

\* Manager.addUnits, given what the three client calls return
ManagerAddUnits(m, delta, prevStatus, added, currentStatus, order) ==
    LET c1 == Call("Status", "nil", prevStatus)
        c2 == Call("AddUnits", [NumUnits |-> delta], added)
        c3 == Call("Status", "nil", currentStatus)
    IN  IF prevStatus.err # NoError
        THEN [units |-> m, err |-> prevStatus.err, calls |-> <<c1>>]
        ELSE IF added.err # NoError
        THEN [units |-> m, err |-> added.err, calls |-> <<c1, c2>>]
        ELSE IF currentStatus.err # NoError
        THEN [units |-> m, err |-> currentStatus.err, calls |-> <<c1, c2, c3>>]
        ELSE [units |-> AddUnitsLoop(m, prevStatus.ret, currentStatus.ret, order),
              err   |-> NoError,
              calls |-> <<c1, c2, c3>>]

addUnits ==
    /\ mgr = "ready"
    /\ op = "idle"
    /\ op' = "addUnits"
    /\ prev' = units
    /\ \E delta \in 1..MaxDelta :
       /\ args' = [delta |-> delta]
       /\ \/ \E e \in ClientErrors :
             LET r == ManagerAddUnits(units, delta, Failed(e), NotCalled, NotCalled, <<>>) IN
               /\ units' = r.units
               /\ err' = r.err
               /\ calls' = r.calls
          \/ \E prevStatus \in PrevStatuses, e \in ClientErrors :
             LET r == ManagerAddUnits(units, delta, Returned(prevStatus), Failed(e),
                                      NotCalled, <<>>) IN
               /\ units' = r.units
               /\ err' = r.err
               /\ calls' = r.calls
          \/ \E prevStatus \in PrevStatuses, added \in AddUnitsResults, e \in ClientErrors :
             LET r == ManagerAddUnits(units, delta, Returned(prevStatus), Returned(added),
                                      Failed(e), <<>>) IN
               /\ units' = r.units
               /\ err' = r.err
               /\ calls' = r.calls
          \/ \E prevStatus \in PrevStatuses, added \in AddUnitsResults,
                currentStatus \in CurrentStatuses :
             \E order \in Orders(DOMAIN currentStatus.units) :
             LET r == ManagerAddUnits(units, delta, Returned(prevStatus), Returned(added),
                                      Returned(currentStatus), order) IN
               /\ units' = r.units
               /\ err' = r.err
               /\ calls' = r.calls
    /\ UNCHANGED <<mgr, groups, pending>>

----------------------------------------------------------------------------
(* removeUnit *)

\* getUnitByHostname returns no unit
NoUnit == "nil"

\* getUnitByHostname taking a unit without a hostname for a match
RECURSIVE getUnitByHostnameLoose(_, _, _)
getUnitByHostnameLoose(m, hostname, order) ==
    IF order = <<>> THEN NoUnit
    ELSE IF m[Head(order)].kubeName = hostname \/ m[Head(order)].kubeName = ""
         THEN Head(order)
    ELSE getUnitByHostnameLoose(m, hostname, Tail(order))

\* the range over m.units in the given order: the first unit whose kubeName is
\* the hostname, by its key
RECURSIVE getUnitByHostname(_, _, _)
getUnitByHostname(m, hostname, order) ==
    IF order = <<>> THEN NoUnit
    ELSE IF m[Head(order)].kubeName = hostname THEN Head(order)
    ELSE getUnitByHostname(m, hostname, Tail(order))

NotFound(hostname) == "unit with hostname " \o hostname \o " not found"

\* ManagerRemoveUnit putting the unit back as it was when DestroyUnits fails
ManagerRemoveUnitRollback(m, hostname, order, destroyed) ==
    LET unit == getUnitByHostname(m, hostname, order) IN
    IF unit = NoUnit
    THEN [units |-> m, err |-> NotFound(hostname), calls |-> <<>>]
    ELSE LET marked == [m EXCEPT ![unit].state = InstanceDeleting]
             destroy == [Units          |-> <<marked[unit].jujuName>>,
                         DestroyStorage |-> FALSE,
                         Force          |-> FALSE]
         IN  [units |-> IF destroyed.err # NoError THEN m ELSE marked,
              err   |-> destroyed.err,
              calls |-> <<Call("DestroyUnits", destroy, destroyed)>>]

\* ManagerRemoveUnit calling DestroyUnits with Force set
ManagerRemoveUnitForce(m, hostname, order, destroyed) ==
    LET unit == getUnitByHostname(m, hostname, order) IN
    IF unit = NoUnit
    THEN [units |-> m, err |-> NotFound(hostname), calls |-> <<>>]
    ELSE LET marked == [m EXCEPT ![unit].state = InstanceDeleting]
             destroy == [Units          |-> <<marked[unit].jujuName>>,
                         DestroyStorage |-> FALSE,
                         Force          |-> TRUE]
         IN  [units |-> marked,
              err   |-> destroyed.err,
              calls |-> <<Call("DestroyUnits", destroy, destroyed)>>]

\* ManagerRemoveUnit marking every unit that has the hostname
ManagerRemoveUnitMarkAll(m, hostname, order, destroyed) ==
    LET unit == getUnitByHostname(m, hostname, order) IN
    IF unit = NoUnit
    THEN [units |-> m, err |-> NotFound(hostname), calls |-> <<>>]
    ELSE LET marked == [u \in DOMAIN m |->
                            IF m[u].kubeName = hostname
                            THEN [m[u] EXCEPT !.state = InstanceDeleting]
                            ELSE m[u]]
             destroy == [Units          |-> <<marked[unit].jujuName>>,
                         DestroyStorage |-> FALSE,
                         Force          |-> FALSE]
         IN  [units |-> marked,
              err   |-> destroyed.err,
              calls |-> <<Call("DestroyUnits", destroy, destroyed)>>]

\* Manager.removeUnit, given the order of the lookup and what DestroyUnits returns
ManagerRemoveUnit(m, hostname, order, destroyed) ==
    LET unit == getUnitByHostname(m, hostname, order) IN
    IF unit = NoUnit
    THEN [units |-> m, err |-> NotFound(hostname), calls |-> <<>>]
    ELSE LET marked == [m EXCEPT ![unit].state = InstanceDeleting]
             destroy == [Units          |-> <<marked[unit].jujuName>>,
                         DestroyStorage |-> FALSE,
                         Force          |-> FALSE]
         IN  [units |-> marked,
              err   |-> destroyed.err,
              calls |-> <<Call("DestroyUnits", destroy, destroyed)>>]

removeUnit ==
    /\ mgr = "ready"
    /\ op = "idle"
    /\ op' = "removeUnit"
    /\ prev' = units
    /\ \E hostname \in Hostnames \cup {NoSuchHost} :
       \E order \in Orders(DOMAIN units) :
       /\ args' = [hostname |-> hostname]
       /\ \/ LET r == ManagerRemoveUnit(units, hostname, order, NotCalled) IN
               /\ r.calls = <<>>
               /\ units' = r.units
               /\ err' = r.err
               /\ calls' = r.calls
          \/ \E destroyed \in {Returned(<<>>)} \cup {Failed(e) : e \in ClientErrors} :
             LET r == ManagerRemoveUnit(units, hostname, order, destroyed) IN
               /\ r.calls # <<>>
               /\ units' = r.units
               /\ err' = r.err
               /\ calls' = r.calls
    /\ UNCHANGED <<mgr, groups, pending>>

----------------------------------------------------------------------------
(* The caller has the result of the call and makes its next call when it   *)
(* chooses.  Nothing of the Manager changes.                               *)

Idle ==
    /\ op # "idle"
    /\ op' = "idle"
    /\ args' = [none |-> TRUE]
    /\ err' = NoError
    /\ calls' = <<>>
    /\ prev' = units
    /\ UNCHANGED <<mgr, units, groups, pending>>

Next ==
    \/ refresh
    \/ addUnits
    \/ removeUnit
    \/ Idle

Spec == Init /\ [][Next]_vars

----------------------------------------------------------------------------
(* jujuCloudProvider: one node group per --nodes spec, each with a Manager *)
(* of its own application and a target.  Refresh walks the node groups in  *)
(* order.  The record of the call is kept as for the Manager: calls holds  *)
(* the Status call of each node group in turn, prev the node groups before *)
(* the call.                                                               *)

\* the node groups BuildJuju makes, in the order of the --nodes specs
GroupIDs == <<"juju-model-app_a", "juju-model-app_b">>

\* the statuses the client of a node group returns: machines that report one
\* hostname, agents idle, and only unit_1 seen before its workload is active
ProviderStatuses ==
    {fs \in CurrentStatuses :
        \A u \in DOMAIN fs.units :
            /\ fs.units[u].agent = "idle"
            /\ u # "unit_1" => ActiveIdle(fs.units[u])}

\* the NodeGroup BuildJuju makes of a Manager
NodeGroup(id, man) ==
    [id |-> id, target |-> Cardinality(DOMAIN man.units), units |-> man.units]

ProviderInit ==
    /\ mgr = "ready"
    /\ units = EmptyMap
    /\ pending = NoRemoval
    /\ prev = <<>>
    /\ op = "BuildJuju"
    /\ args = [none |-> TRUE]
    /\ err = NoError
    /\ \E fetched \in [DOMAIN GroupIDs -> ProviderStatuses] :
       \E man \in [DOMAIN GroupIDs ->
                    UNION {{NewManager(Returned(fetched[g]), order) :
                                order \in Orders(DOMAIN fetched[g].units)} :
                           g \in DOMAIN GroupIDs}] :
        /\ \A g \in DOMAIN GroupIDs :
            \E order \in Orders(DOMAIN fetched[g].units) :
                man[g] = NewManager(Returned(fetched[g]), order)
        /\ groups = [g \in DOMAIN GroupIDs |-> NodeGroup(GroupIDs[g], man[g])]
        /\ calls = [g \in DOMAIN GroupIDs |-> man[g].calls[1]]

\* RefreshNodeGroup setting the target before the Manager is refreshed
RefreshNodeGroupTargetFirst(group, refreshed) ==
    [group EXCEPT !.units  = refreshed.units,
                  !.target = Cardinality(DOMAIN group.units)]

\* the body of the loop of Refresh: the Manager is refreshed, the error it
\* returns is dropped, and the target becomes the number of its units
RefreshNodeGroup(group, refreshed) ==
    [group EXCEPT !.units  = refreshed.units,
                  !.target = Cardinality(DOMAIN refreshed.units)]

\* ProviderRefreshLoop returning at the first node group whose refresh fails
RECURSIVE ProviderRefreshLoopStopOnError(_, _, _)
ProviderRefreshLoopStopOnError(gs, refreshed, g) ==
    IF g > Len(gs) THEN gs
    ELSE IF refreshed[g].err # NoError THEN gs
    ELSE ProviderRefreshLoopStopOnError(
            [gs EXCEPT ![g] = RefreshNodeGroup(gs[g], refreshed[g])], refreshed, g + 1)

\* the loop of Refresh over the node groups, from node group g on
RECURSIVE ProviderRefreshLoop(_, _, _)
ProviderRefreshLoop(gs, refreshed, g) ==
    IF g > Len(gs) THEN gs
    ELSE ProviderRefreshLoop([gs EXCEPT ![g] = RefreshNodeGroup(gs[g], refreshed[g])],
                             refreshed, g + 1)

\* jujuCloudProvider.Refresh
Refresh ==
    /\ op = "idle"
    /\ op' = "Refresh"
    /\ args' = [none |-> TRUE]
    /\ prev' = groups
    /\ err' = NoError
    /\ \E status \in [DOMAIN groups ->
                        {Returned(fs) : fs \in ProviderStatuses}
                            \cup {Failed(e) : e \in ClientErrors}] :
       \E refreshed \in [DOMAIN groups ->
                          UNION {RefreshOutcomes(groups[g].units, status[g]) :
                                    g \in DOMAIN groups}] :
        /\ \A g \in DOMAIN groups :
                refreshed[g] \in RefreshOutcomes(groups[g].units, status[g])
        /\ groups' = ProviderRefreshLoop(groups, refreshed, 1)
        /\ calls' = [g \in DOMAIN groups |-> refreshed[g].calls[1]]
    /\ UNCHANGED <<mgr, units, pending>>

\* a removeUnit on the Manager of one node group, between two Refresh calls
GroupRemoveUnit ==
    /\ op = "idle"
    /\ op' = "removeUnit"
    /\ prev' = groups
    /\ \E g \in DOMAIN groups :
       \E order \in Orders(DOMAIN groups[g].units) :
       \E destroyed \in {Returned(<<>>)} \cup {Failed(e) : e \in ClientErrors} :
       LET r == ManagerRemoveUnit(groups[g].units, "host_1", order, destroyed) IN
        /\ r.calls # <<>>
        /\ args' = [group |-> groups[g].id, hostname |-> "host_1"]
        /\ groups' = [groups EXCEPT ![g].units = r.units]
        /\ err' = r.err
        /\ calls' = r.calls
    /\ UNCHANGED <<mgr, units, pending>>

\* the autoscaler has the result of the call and makes its next call
ProviderIdle ==
    /\ op # "idle"
    /\ op' = "idle"
    /\ args' = [none |-> TRUE]
    /\ err' = NoError
    /\ calls' = <<>>
    /\ prev' = groups
    /\ UNCHANGED <<mgr, units, groups, pending>>

ProviderNext ==
    \/ Refresh
    \/ GroupRemoveUnit
    \/ ProviderIdle

ProviderSpec == ProviderInit /\ [][ProviderNext]_vars

----------------------------------------------------------------------------
(* removeUnit in two steps, with refresh calls of another goroutine of the *)
(* autoscaler running in between: removeUnit looks the unit up and marks   *)
(* it, and later calls DestroyUnits.  A refresh runs as a whole between    *)
(* the two steps, or after the second.  pending is the unit removeUnit     *)
(* holds: marked, or failed once DestroyUnits has returned an error.       *)

\* removeUnit up to the assignment of InstanceDeleting: the units, and the key
\* of the unit found
MarkDeleting(m, hostname, order) ==
    LET unit == getUnitByHostname(m, hostname, order) IN
    IF unit = NoUnit
    THEN [units |-> m, unit |-> NoUnit]
    ELSE [units |-> [m EXCEPT ![unit].state = InstanceDeleting], unit |-> unit]

\* removeUnit from there on: the DestroyUnits call for the unit it holds
DestroyMarked(jujuName, destroyed) ==
    LET destroy == [Units          |-> <<jujuName>>,
                    DestroyStorage |-> FALSE,
                    Force          |-> FALSE]
    IN  [err   |-> destroyed.err,
         calls |-> <<Call("DestroyUnits", destroy, destroyed)>>]

\* the statuses the client returns to a refresh that runs meanwhile: machines
\* that report one hostname and agents idle
MeanwhileStatuses ==
    {fs \in CurrentStatuses : \A u \in DOMAIN fs.units : fs.units[u].agent = "idle"}

removeUnitMark ==
    /\ mgr = "ready"
    /\ pending = NoRemoval \/ pending.phase = "failed"
    /\ prev' = units
    /\ \E hostname \in Hostnames \cup {NoSuchHost} :
       \E order \in Orders(DOMAIN units) :
       LET r == MarkDeleting(units, hostname, order) IN
        /\ args' = [hostname |-> hostname]
        /\ units' = r.units
        /\ calls' = <<>>
        /\ IF r.unit = NoUnit
           THEN /\ op' = "removeUnit"
                /\ err' = NotFound(hostname)
                /\ pending' = NoRemoval
           ELSE /\ op' = "removeUnit marked"
                /\ err' = NoError
                /\ pending' = [unit |-> units[r.unit].jujuName, hostname |-> hostname,
                               phase |-> "marked"]
    /\ UNCHANGED <<mgr, groups>>

removeUnitDestroy ==
    /\ pending # NoRemoval
    /\ pending.phase = "marked"
    /\ op' = "removeUnit"
    /\ args' = [hostname |-> pending.hostname]
    /\ \E destroyed \in {Returned(<<>>)} \cup {Failed(e) : e \in ClientErrors} :
       LET r == DestroyMarked(pending.unit, destroyed) IN
        /\ err' = r.err
        /\ calls' = r.calls
        /\ pending' = IF r.err # NoError
                      THEN [pending EXCEPT !.phase = "failed"]
                      ELSE NoRemoval
    /\ UNCHANGED <<mgr, units, prev, groups>>

\* a refresh while removeUnit holds a unit
refreshMeanwhile ==
    /\ pending # NoRemoval
    /\ op' = "refresh"
    /\ args' = [none |-> TRUE]
    /\ prev' = units
    /\ \/ \E e \in ClientErrors :
          LET r == ManagerRefresh(units, Failed(e), <<>>, <<>>) IN
            /\ units' = r.units
            /\ err' = r.err
            /\ calls' = r.calls
       \/ \E fullStatus \in MeanwhileStatuses :
          \E order1 \in Orders(DOMAIN fullStatus.units) :
          \E order2 \in Orders(DOMAIN RefreshStatusLoop(units, fullStatus, order1)) :
          LET r == ManagerRefresh(units, Returned(fullStatus), order1, order2) IN
            /\ units' = r.units
            /\ err' = r.err
            /\ calls' = r.calls
    /\ UNCHANGED <<mgr, groups, pending>>

ConcurrentNext ==
    \/ removeUnitMark
    \/ removeUnitDestroy
    \/ refreshMeanwhile

ConcurrentSpec == Init /\ [][ConcurrentNext]_vars

----------------------------------------------------------------------------
(* Properties.  Each reads the record of the call that ran last: op, args, *)
(* the client calls and what they returned, the error returned, and the    *)
(* units before (prev) and after (units).                                  *)

\* agent status idle and workload status active
Healthy(unitStatus) == unitStatus.agent = "idle" /\ unitStatus.workload = "active"

RefreshOk == op = "refresh" /\ err = NoError

\* the status a successful refresh fetched
Fetched == calls[1].ret

AddUnitsOk == op = "addUnits" /\ err = NoError

\* the two statuses of a successful addUnits
Before == calls[1].ret

After == calls[3].ret

\* C1: when the Status call of refresh fails, refresh returns that error and
\* the units are what they were before the call.
C1_RefreshFailClosed ==
    (op = "refresh" /\ calls[1].err # NoError)
        => (err = calls[1].err /\ units = prev)

\* a failed refresh of a Manager that holds a unit refresh would have removed
C1_Witness ==
    /\ op = "refresh"
    /\ calls[1].err = "rpc error"
    /\ \E u \in DOMAIN prev : prev[u].state = InstanceDeleting

\* C2: a successful refresh that follows a successful refresh and fetches the
\* same status leaves the units as the first left them.
C2_RefreshIdempotent ==
    [][(RefreshOk /\ op' = "refresh" /\ err' = NoError /\ calls'[1].ret = Fetched)
            => units' = units]_vars

\* C3: a unit that is InstanceDeleting when a refresh starts is not managed as
\* InstanceCreating or InstanceRunning after the refresh that follows it.
C3_DeletingNeverReturns ==
    [][(RefreshOk /\ op' = "refresh" /\ err' = NoError)
            => \A u \in DOMAIN prev :
                 prev[u].state = InstanceDeleting
                    => (u \notin DOMAIN units' \/ units'[u].state = InstanceDeleting)]_vars

\* C4: every unit that is InstanceDeleting when a refresh starts is gone from
\* the units when the refresh returns nil, listed in the status or not.
C4_DeletingPruned ==
    RefreshOk => \A u \in DOMAIN prev :
                    prev[u].state = InstanceDeleting => u \notin DOMAIN units

\* a successful refresh that started with an InstanceDeleting unit the status
\* still lists as idle and active
C4_Witness ==
    /\ RefreshOk
    /\ \E u \in DOMAIN prev \cap DOMAIN Fetched.units :
        /\ prev[u].state = InstanceDeleting
        /\ Healthy(Fetched.units[u])

\* C5: after a successful addUnits the units written are exactly those of the
\* second status that the first does not list, each InstanceCreating with an
\* empty kubeName, whatever delta was; every other unit is what it was.
C5_DiffBasedCreation ==
    AddUnitsOk =>
        LET new == DOMAIN After.units \ DOMAIN Before.units IN
        /\ DOMAIN units = DOMAIN prev \cup new
        /\ \A u \in new :
            /\ units[u].state = InstanceCreating
            /\ units[u].kubeName = ""
            /\ units[u].jujuName = u
            /\ units[u].status = After.units[u]
        /\ \A u \in DOMAIN prev \ new : units[u] = prev[u]

\* a successful addUnits(2) between a status listing unit_1 and one listing
\* unit_1 and unit_2, unit_1 managed and running before
C5_Witness ==
    /\ AddUnitsOk
    /\ args.delta = 2
    /\ DOMAIN Before.units = {"unit_1"}
    /\ DOMAIN After.units = {"unit_1", "unit_2"}
    /\ "unit_1" \in DOMAIN prev
    /\ prev["unit_1"].state = InstanceRunning
    /\ "unit_2" \notin DOMAIN prev

\* C6: when a client call of addUnits fails, addUnits returns that call's
\* error and the units are what they were before the call.
C6_AddUnitsAllOrNothing ==
    op = "addUnits" =>
        \A i \in DOMAIN calls :
            calls[i].err # NoError => (err = calls[i].err /\ units = prev)

\* an addUnits whose second Status failed after AddUnits had named a unit that
\* was not managed
C6_Witness ==
    /\ op = "addUnits"
    /\ Len(calls) = 3
    /\ calls[3].err = "connection closed"
    /\ calls[2].ret = <<"unit_1">>
    /\ "unit_1" \notin DOMAIN prev

\* C7: a unit the fetched status lists as idle and active and that was not
\* managed is managed, InstanceRunning, after a successful refresh.
C7_ExternalAdditionDetected ==
    RefreshOk => \A u \in DOMAIN Fetched.units \ DOMAIN prev :
                    Healthy(Fetched.units[u])
                        => (u \in DOMAIN units /\ units[u].state = InstanceRunning)

C7_Witness ==
    /\ RefreshOk
    /\ \E u \in DOMAIN Fetched.units \ DOMAIN prev : Healthy(Fetched.units[u])

\* C8: a unit the fetched status lists as anything but idle and active and
\* that was not managed is not managed after a successful refresh.
C8_ExternalAdditionSuppressed ==
    RefreshOk => \A u \in DOMAIN Fetched.units \ DOMAIN prev :
                    ~Healthy(Fetched.units[u]) => u \notin DOMAIN units

\* an unmanaged unit listed with an active workload and an agent not idle
C8_Witness ==
    /\ RefreshOk
    /\ \E u \in DOMAIN Fetched.units \ DOMAIN prev :
        /\ Fetched.units[u].workload = "active"
        /\ Fetched.units[u].agent # "idle"

\* C9: a managed unit the fetched status does not list is gone from the units
\* after a successful refresh, whatever its state was.
C9_ExternalRemovalDetected ==
    RefreshOk => \A u \in DOMAIN prev \ DOMAIN Fetched.units : u \notin DOMAIN units

\* a running unit and a creating unit, both missing from the fetched status
C9_Witness ==
    /\ RefreshOk
    /\ \E u, v \in DOMAIN prev \ DOMAIN Fetched.units :
        /\ prev[u].state = InstanceRunning
        /\ prev[v].state = InstanceCreating

\* C10: removeUnit with a hostname that is the kubeName of no managed unit
\* returns the not-found error, calls DestroyUnits not at all and leaves the
\* units as they were.
C10_RemoveNotFound ==
    (op = "removeUnit" /\ \A u \in DOMAIN prev : prev[u].kubeName # args.hostname)
        => /\ err = "unit with hostname " \o args.hostname \o " not found"
           /\ calls = <<>>
           /\ units = prev

\* removeUnit("the_host_does_not_exist") on a Manager with a unit that has a
\* hostname and one that has none yet
C10_Witness ==
    /\ op = "removeUnit"
    /\ args.hostname = NoSuchHost
    /\ \E u, v \in DOMAIN prev : prev[u].kubeName = "" /\ prev[v].kubeName = "host_1"

\* C11: a removeUnit whose DestroyUnits call failed returns the error of that
\* call, and the unit it named is still managed, InstanceDeleting.
C11_RemoveNoRollback ==
    (op = "removeUnit" /\ calls # <<>> /\ calls[1].err # NoError)
        => /\ err = calls[1].err
           /\ \A i \in DOMAIN calls[1].arg.Units :
                /\ calls[1].arg.Units[i] \in DOMAIN units
                /\ units[calls[1].arg.Units[i]].state = InstanceDeleting

\* DestroyUnits failing for a unit that was running
C11_Witness ==
    /\ op = "removeUnit"
    /\ calls # <<>>
    /\ calls[1].err = "rpc error"
    /\ prev[calls[1].arg.Units[1]].state = InstanceRunning

C13_InitFailure ==
    (op = "NewManager" /\ calls[1].err # NoError)
        => /\ err = calls[1].err
           /\ mgr = "nil"

C13_Witness ==
    /\ op = "NewManager"
    /\ calls[1].fn = "Status"
    /\ calls[1].err = "rpc error"

\* C14: a successful refresh leaves a unit that was InstanceCreating
\* InstanceRunning exactly if the fetched status lists it idle and active; one
\* the status lists with any other health is still InstanceCreating.
C14_PromotionRule ==
    RefreshOk => \A u \in DOMAIN prev :
        prev[u].state = InstanceCreating
            => /\ (u \in DOMAIN units /\ units[u].state = InstanceRunning)
                    <=> (u \in DOMAIN Fetched.units /\ Healthy(Fetched.units[u]))
               /\ (u \in DOMAIN Fetched.units /\ ~Healthy(Fetched.units[u]))
                    => (u \in DOMAIN units /\ units[u].state = InstanceCreating)

\* a creating unit listed idle and active, and one listed with an active
\* workload and an agent still executing
C14_Witness ==
    /\ RefreshOk
    /\ \E u, v \in DOMAIN prev \cap DOMAIN Fetched.units :
        /\ prev[u].state = InstanceCreating
        /\ Healthy(Fetched.units[u])
        /\ prev[v].state = InstanceCreating
        /\ Fetched.units[v].workload = "active"
        /\ Fetched.units[v].agent = "executing"

\* the changes of state the lifecycle of a unit allows
LifecycleSteps ==
    {<<InstanceCreating, InstanceRunning>>,
     <<InstanceCreating, InstanceDeleting>>,
     <<InstanceRunning,  InstanceDeleting>>}

\* C15: an operation changes the state of a unit that is managed before and
\* after it only from InstanceCreating to InstanceRunning or from either to
\* InstanceDeleting.
C15_LifecycleStateMachine ==
    op \in {"addUnits", "removeUnit", "refresh"}
        => \A u \in DOMAIN prev \cap DOMAIN units :
            prev[u].state # units[u].state
                => <<prev[u].state, units[u].state>> \in LifecycleSteps

\* C16: every Unit is stored under its own jujuName, which is not empty, so
\* no two managed units have the same jujuName.
C16_UniqueIdentity ==
    /\ \A u \in DOMAIN units : units[u].jujuName = u /\ u # ""
    /\ \A u, v \in DOMAIN units : units[u].jujuName = units[v].jujuName => u = v

\* two managed units, one of them taken in by addUnits
C16_Witness ==
    /\ op = "addUnits"
    /\ Cardinality(DOMAIN units) = 2
    /\ \E u \in DOMAIN units : u \notin DOMAIN prev

\* the calls of the record made of the client function fn
CallsOf(fn) == {i \in DOMAIN calls : calls[i].fn = fn}

\* C18: refresh makes exactly one Status call; addUnits at most two Status
\* calls and one AddUnits call; removeUnit at most one DestroyUnits call and
\* no Status call; and a call that failed is the last call of its operation.
C18_NoInternalRetry ==
    /\ op = "refresh"
        => Len(calls) = 1 /\ Cardinality(CallsOf("Status")) = 1
    /\ op = "addUnits"
        => /\ Cardinality(CallsOf("Status")) <= 2
           /\ Cardinality(CallsOf("AddUnits")) <= 1
           /\ Len(calls) = Cardinality(CallsOf("Status") \cup CallsOf("AddUnits"))
    /\ op = "removeUnit"
        => /\ Cardinality(CallsOf("DestroyUnits")) <= 1
           /\ Len(calls) = Cardinality(CallsOf("DestroyUnits"))
    /\ op \in {"refresh", "addUnits", "removeUnit"}
        => \A i \in DOMAIN calls : calls[i].err # NoError => i = Len(calls)

\* a refresh whose only Status call failed
C18_Witness ==
    /\ op = "refresh"
    /\ Len(calls) = 1
    /\ calls[1].err = "connection closed"
    /\ err = "connection closed"

\* the order in which addUnits calls the client
AddUnitsOrder == <<"Status", "AddUnits", "Status">>

\* C20: the calls of an addUnits are Status, AddUnits, Status in that order,
\* as far as it got: nothing after a Status that failed, nothing after an
\* AddUnits that failed, and the next call after each that succeeded.
C20_AddUnitsCallOrder ==
    op = "addUnits"
        => /\ Len(calls) \in 1..3
           /\ \A i \in DOMAIN calls : calls[i].fn = AddUnitsOrder[i]
           /\ \A i \in DOMAIN calls :
                IF calls[i].err # NoError THEN Len(calls) = i
                ELSE i < 3 => Len(calls) > i

\* an addUnits whose first Status failed, and nothing was called after it
C20_Witness ==
    /\ op = "addUnits"
    /\ calls[1].fn = "Status"
    /\ calls[1].err = "rpc error"
    /\ Len(calls) = 1

\* C17: when Refresh has returned, the target of every node group is the
\* number of units of its Manager, whatever their states.
C17_TargetFollowsSize ==
    op = "Refresh"
        => \A g \in DOMAIN groups :
            groups[g].target = Cardinality(DOMAIN groups[g].units)

\* a Refresh that changed the number of units of one node group and left a
\* creating unit in it, while the Status of another failed and left it with a
\* deleting unit
C17_Witness ==
    /\ op = "Refresh"
    /\ \E g, h \in DOMAIN groups :
        /\ Cardinality(DOMAIN groups[g].units) # Cardinality(DOMAIN prev[g].units)
        /\ \E u \in DOMAIN groups[g].units : groups[g].units[u].state = InstanceCreating
        /\ calls[h].err # NoError
        /\ \E u \in DOMAIN groups[h].units : groups[h].units[u].state = InstanceDeleting

\* C19: the unit removeUnit has marked and not yet destroyed, or failed to
\* destroy, is not InstanceRunning after a refresh that ran in the meantime,
\* and is not InstanceRunning when DestroyUnits is called for it.
C19_DeletingBeforeRemoteCall ==
    /\ (op = "refresh" /\ pending # NoRemoval)
        => ~(pending.unit \in DOMAIN units
                /\ units[pending.unit].state = InstanceRunning)
    /\ (op = "removeUnit" /\ calls # <<>>)
        => \A i \in DOMAIN calls[1].arg.Units :
            ~(calls[1].arg.Units[i] \in DOMAIN units
                /\ units[calls[1].arg.Units[i]].state = InstanceRunning)

\* the hostname the fetched status reports for the machine of unit u
FetchedHostname(u) == Fetched.machines[Fetched.units[u].machine]

\* C21: every unit managed before an addUnits, failed or not, is managed after
\* it, so the number of managed units does not go down.
C21_AddUnitsNeverRemoves ==
    op = "addUnits"
        => /\ DOMAIN prev \subseteq DOMAIN units
           /\ Cardinality(DOMAIN units) >= Cardinality(DOMAIN prev)

\* an addUnits(2) that found fewer than two new units while a managed unit was
\* in neither status
C21_Witness ==
    /\ AddUnitsOk
    /\ args.delta = 2
    /\ Cardinality(DOMAIN After.units \ DOMAIN Before.units) < 2
    /\ \E u \in DOMAIN prev : u \notin DOMAIN Before.units \cup DOMAIN After.units

\* C22: the units after a successful addUnits are what addUnits makes of the
\* same units before and the same two statuses for any other list of names
\* AddUnits could have returned.
C22_AcknowledgementIgnored ==
    AddUnitsOk =>
        \A added \in AddUnitsResults :
        \A order \in Orders(DOMAIN After.units) :
            ManagerAddUnits(prev, args.delta, Returned(Before), Returned(added),
                            Returned(After), order).units = units

\* AddUnits returned the name of a unit the second status does not list, and
\* the second status lists a new unit of another name
C22_Witness ==
    /\ AddUnitsOk
    /\ calls[2].ret = <<"unit_1">>
    /\ "unit_1" \notin DOMAIN After.units
    /\ "unit_2" \in DOMAIN After.units \ DOMAIN Before.units

\* C23: a unit that has no kubeName, is managed before and after a successful
\* refresh, and whose machine has a hostname in the fetched status, has that
\* hostname for kubeName after the refresh, whatever its state.
C23_HostnameResolved ==
    RefreshOk => \A u \in DOMAIN prev \cap DOMAIN units :
        (prev[u].kubeName = "" /\ FetchedHostname(u) # "")
            => units[u].kubeName = FetchedHostname(u)

\* a running unit without kubeName whose machine now reports host_2
C23_Witness ==
    /\ RefreshOk
    /\ \E u \in DOMAIN prev \cap DOMAIN units :
        /\ prev[u].state = InstanceRunning
        /\ prev[u].kubeName = ""
        /\ FetchedHostname(u) = "host_2"

\* C24: after a NewManager that returned a Manager, the kubeName of each unit
\* is the hostname the fetched status reports for its machine, empty if it
\* reports none.
C24_InitHostname ==
    (op = "NewManager" /\ err = NoError)
        => \A u \in DOMAIN units : units[u].kubeName = FetchedHostname(u)

\* a status with a unit on a machine with a hostname and one on a machine
\* without
C24_Witness ==
    /\ op = "NewManager"
    /\ err = NoError
    /\ \E u, v \in DOMAIN units :
        /\ FetchedHostname(u) = "host_1"
        /\ FetchedHostname(v) = ""

\* C25: a removeUnit whose hostname is the kubeName of a managed unit makes
\* one DestroyUnits call, for one unit: the jujuName of a unit with that
\* kubeName, Force and DestroyStorage false.
C25_RemoveTargetsMatch ==
    (op = "removeUnit" /\ \E u \in DOMAIN prev : prev[u].kubeName = args.hostname)
        => /\ Len(calls) = 1
           /\ calls[1].fn = "DestroyUnits"
           /\ Len(calls[1].arg.Units) = 1
           /\ \E u \in DOMAIN prev :
                /\ prev[u].kubeName = args.hostname
                /\ calls[1].arg.Units = <<prev[u].jujuName>>
           /\ calls[1].arg.Force = FALSE
           /\ calls[1].arg.DestroyStorage = FALSE

\* removeUnit("host_2") with a unit on host_1 and a unit on host_2
C25_Witness ==
    /\ op = "removeUnit"
    /\ args.hostname = "host_2"
    /\ \E u, v \in DOMAIN prev :
        /\ prev[u].kubeName = "host_1"
        /\ prev[v].kubeName = "host_2"
        /\ calls[1].arg.Units = <<v>>

\* C26: the units after a successful refresh are what refresh makes of the
\* same units before and the same status for every order of its two loops.
C26_RefreshOrderIndependent ==
    RefreshOk =>
        \A order1 \in Orders(DOMAIN Fetched.units) :
        \A order2 \in Orders(DOMAIN RefreshStatusLoop(prev, Fetched, order1)) :
            ManagerRefresh(prev, Returned(Fetched), order1, order2).units = units

\* a refresh with two units in the status, neither managed before, one of
\* them idle and active
C26_Witness ==
    /\ RefreshOk
    /\ Cardinality(DOMAIN Fetched.units) = 2
    /\ DOMAIN prev \cap DOMAIN Fetched.units = {}
    /\ \E u \in DOMAIN Fetched.units : Healthy(Fetched.units[u])

\* C27: after a successful refresh every managed unit is listed in the fetched
\* status and none is InstanceDeleting.
C27_TrackedAreListed ==
    RefreshOk => \A u \in DOMAIN units :
                    /\ u \in DOMAIN Fetched.units
                    /\ units[u].state # InstanceDeleting

\* a refresh that found one managed unit missing from the status and left
\* another managed
C27_Witness ==
    /\ RefreshOk
    /\ \E u \in DOMAIN prev : u \notin DOMAIN Fetched.units
    /\ \E v \in DOMAIN prev : v \in DOMAIN units

\* C28: after a successful refresh every managed unit the fetched status lists
\* idle and active is InstanceRunning.
C28_HealthyAreRunning ==
    RefreshOk => \A u \in DOMAIN units \cap DOMAIN Fetched.units :
                    Healthy(Fetched.units[u]) => units[u].state = InstanceRunning

\* a creating unit whose last status was not idle and active, now listed so
C28_Witness ==
    /\ RefreshOk
    /\ \E u \in DOMAIN prev \cap DOMAIN units :
        /\ prev[u].state = InstanceCreating
        /\ ~Healthy(prev[u].status)
        /\ Healthy(Fetched.units[u])

\* C29: after a successful refresh every managed unit whose machine has a
\* hostname in the fetched status has a kubeName, the units this refresh took
\* in included.
C29_ListedHostnameKnown ==
    RefreshOk => \A u \in DOMAIN units \cap DOMAIN Fetched.units :
                    FetchedHostname(u) # "" => units[u].kubeName # ""

\* C30: a refresh leaves the kubeName of a unit that had one, and that is
\* managed before and after it, as it was.
C30_HostnameStable ==
    op = "refresh" => \A u \in DOMAIN prev \cap DOMAIN units :
                        prev[u].kubeName # "" => units[u].kubeName = prev[u].kubeName

\* a unit on host_1 whose machine the status now reports as host_2, and a unit
\* on host_2 whose machine now reports no hostname
C30_Witness ==
    /\ RefreshOk
    /\ \E u, v \in DOMAIN prev \cap DOMAIN units :
        /\ prev[u].kubeName = "host_1"
        /\ FetchedHostname(u) = "host_2"
        /\ prev[v].kubeName = "host_2"
        /\ FetchedHostname(v) = ""

\* C31: an addUnits leaves every unit that was managed before it as it was:
\* state, kubeName and status, also a unit the first status does not list
\* and the second does.
C31_AddUnitsFrame ==
    op = "addUnits"
        => \A u \in DOMAIN prev :
            /\ u \in DOMAIN units
            /\ units[u].state = prev[u].state
            /\ units[u].kubeName = prev[u].kubeName
            /\ units[u].status = prev[u].status

\* C32: a removeUnit that finds no unit with the hostname leaves the units as
\* they were; one that finds a unit sets one unit with that kubeName to
\* InstanceDeleting and leaves the keys and every other unit as they were.
C32_RemoveUnitFrame ==
    op = "removeUnit"
        => IF \E u \in DOMAIN prev : prev[u].kubeName = args.hostname
           THEN \E u \in DOMAIN prev :
                    /\ prev[u].kubeName = args.hostname
                    /\ units = [prev EXCEPT ![u].state = InstanceDeleting]
           ELSE units = prev

\* removeUnit("host_1") with two running units that both have kubeName host_1
C32_Witness ==
    /\ op = "removeUnit"
    /\ args.hostname = "host_1"
    /\ Cardinality(DOMAIN prev) = 2
    /\ \A u \in DOMAIN prev :
            prev[u].kubeName = "host_1" /\ prev[u].state = InstanceRunning

\* C33: a removeUnit with the empty hostname returns the not-found error,
\* makes no client call and leaves the units as they were.
C33_EmptyHostnameNotFound ==
    (op = "removeUnit" /\ args.hostname = "")
        => /\ err = "unit with hostname  not found"
           /\ calls = <<>>
           /\ units = prev

\* C35: Refresh returns nil; a node group whose Status failed keeps its units
\* and gets their number for target; and every node group, before or after
\* one that failed, has had its Status call and, where that succeeded, its
\* units refreshed from it.
C35_RefreshIgnoresErrors ==
    op = "Refresh"
        => /\ err = NoError
           /\ DOMAIN calls = DOMAIN groups
           /\ \A g \in DOMAIN groups :
                /\ calls[g].fn = "Status"
                /\ IF calls[g].err # NoError
                   THEN /\ groups[g].units = prev[g].units
                        /\ groups[g].target = Cardinality(DOMAIN prev[g].units)
                   ELSE \E r \in RefreshOutcomes(prev[g].units, Returned(calls[g].ret)) :
                            groups[g].units = r.units

\* the Status of the first node group failed while it had a deleting unit and
\* a stale target, and the second node group lost a unit in the same Refresh
C35_Witness ==
    /\ op = "Refresh"
    /\ calls[1].err = "rpc error"
    /\ \E u \in DOMAIN prev[1].units : prev[1].units[u].state = InstanceDeleting
    /\ calls[2].err = NoError
    /\ Cardinality(DOMAIN groups[2].units) < Cardinality(DOMAIN prev[2].units)

\* the units a further successful refresh that fetches the same status makes
\* of the units m
StableRefresh(m) ==
    LET order1 == CHOOSE o \in Orders(DOMAIN Fetched.units) : TRUE
        order2 == CHOOSE o \in Orders(DOMAIN RefreshStatusLoop(m, Fetched, order1)) : TRUE
    IN  ManagerRefresh(m, Returned(Fetched), order1, order2).units

\* every unit the fetched status lists idle and active is among the units m,
\* InstanceRunning
HealthyRunning(m) ==
    \A u \in DOMAIN Fetched.units :
        Healthy(Fetched.units[u]) => (u \in DOMAIN m /\ m[u].state = InstanceRunning)

\* C34: when successful refresh calls go on fetching the status the first of
\* them fetched, the units after the third call are units a further call
\* leaves as they are, and every unit the status lists idle and active is
\* among them, InstanceRunning.
C34_ConvergesUnderStableStatus ==
    RefreshOk =>
        /\ StableRefresh(StableRefresh(StableRefresh(units)))
                = StableRefresh(StableRefresh(units))
        /\ HealthyRunning(StableRefresh(StableRefresh(units)))

\* a deleting unit the status goes on listing idle and active on host_1: the
\* first refresh deletes it, the second takes it in, the third gives it its
\* kubeName
C34_Witness ==
    /\ RefreshOk
    /\ \E u \in DOMAIN prev \cap DOMAIN Fetched.units :
        /\ prev[u].state = InstanceDeleting
        /\ Healthy(Fetched.units[u])
        /\ FetchedHostname(u) = "host_1"
    /\ units # StableRefresh(units)
    /\ StableRefresh(units) # StableRefresh(StableRefresh(units))

====
